---- MODULE Spec2Model ----
(***************************************************************************)
(* Model of the index registry (meilidb-data/src/database/mod.rs) and of   *)
(* the schema model (meilidb-schema/src/lib.rs).                           *)
(*                                                                         *)
(* Spec       : the Database shared by several threads, one action per     *)
(*              lock-delimited step of open_index / create_index, plus     *)
(*              Database::open and the drop of the Database.               *)
(* SchemaSpec : SchemaBuilder / Schema, driven by declaration sequences.   *)
(***************************************************************************)
EXTENDS Integers, Sequences, FiniteSets, TLC

\* ------------------------------------------------------------------ bounds
NumThreads == 3
NumNames == 2
NumSchemas == 2
MaxFails == 1
MaxOpens == 2
MaxCalls == 3
NumAttrNames == 3
MaxAttrs == 3
MaxOperands == 3

Threads == 1..NumThreads
Names == 1..NumNames
Schemas == 1..NumSchemas

\* the thread that calls Database::open
MainThread == 1

VARIABLES
    phase,      \* "closed": no Database value exists; "open": Database::open returned Ok
    openRes,    \* outcome of the last Database::open: "none" | "ok" | "err"
    opens,      \* number of Database::open calls made on the store
    todo,       \* Database::open: the loaded names its loop has yet to open
    calls,      \* number of calls threads have made on the Database
    fails,      \* number of store / decode / construction errors so far
    store,      \* the record under INDEXES_KEY: [present, bytes]
    regions,    \* per name: schema of the initialized index region, 0 if none
    cache,      \* Database.cache: per name the cached Index handle, 0 if absent
    readers,    \* threads holding the RwLock shared
    writers,    \* threads holding the RwLock exclusive
    pc,         \* per thread: position inside open_index / create_index
    call,       \* per thread: the call in progress or last returned
    local,      \* per thread: locals of create_index (index, indexes)
    res,        \* per thread: what the last call returned
    built,      \* per name: Index values constructed during this Database's life,
                \* by Index::new (.new) and by Index::with_schema (.ws)
    createRet,  \* per name: handle returned by a successful create_index, 0 if none
    everCreated \* names for which a create_index has returned Ok on this store

VARIABLES
    stage,      \* "building" | "built" | "encoded" | "decoded"
    sb,         \* the SchemaBuilder: [identifier, attributes] (an IndexMap, in order)
    panicked,   \* new_attribute has panicked ("Field already inserted.")
    rets,       \* <<name, SchemaAttr>> of every new_attribute call that returned
    schema,     \* the Schema that build() produced
    wire,       \* the serialized form of the Schema
    schema2     \* the Schema deserialized from `wire`

svars == <<stage, sb, panicked, rets, schema, wire, schema2>>

VARIABLES
    aop,        \* the last SchemaAttr operation: "new" | "next" | "prev"
    aarg,       \* its argument: the u16 given to new, the value of self otherwise
    aret        \* what it returned, an Option<SchemaAttr>

avars == <<aop, aarg, aret>>

VARIABLES
    ops,        \* the SchemaProps operands that were ORed, in order
    acc         \* ops[1] | ops[2] | ..., as `|` grouped them (to the left)

pvars == <<ops, acc>>

dbvars == <<phase, openRes, opens, todo, calls, fails, store, regions, cache, readers, writers,
            pc, call, local, res, built, createRet, everCreated>>

\* ------------------------------------------------------- store encoding
RECURSIVE SetToSeq(_)
SetToSeq(S) ==
    IF S = {} THEN <<>>
    ELSE LET x == CHOOSE y \in S : \A z \in S : y <= z
         IN <<x>> \o SetToSeq(S \ {x})

\* bincode::serialize(&HashSet<String>): the elements, one after the other
Serialize(S) == SetToSeq(S)

\* bincode::deserialize: the set of the decoded elements
Deserialize(bytes) == {bytes[i] : i \in 1..Len(bytes)}

\* load_indexes: absent record => empty set
load_indexes(tree) ==
    IF tree.present THEN Deserialize(tree.bytes) ELSE {}

\* Database::indexes
indexes == load_indexes(store)

\* Database::set_indexes: the store after the insert under INDEXES_KEY
set_indexes(value) == [present |-> TRUE, bytes |-> Serialize(value)]

\* ------------------------------------------------------------ the calls
NoCall ==
    [op |-> "none", name |-> 0, schema |-> 0, miss |-> FALSE, after |-> FALSE,
     listed |-> FALSE]

\* some indexes() call on this Database has returned Ok with a set that holds n
Listed(n) ==
    \E u \in Threads :
        call[u].op = "indexes" /\ res[u].kind = "set" /\ n \in res[u].names

\* the record of a call: its arguments, whether a successful create_index of the
\* name had returned when it started, whether an indexes() that returned the
\* name had returned when it started, and (set later) whether its fast path missed
Call(op, n, s) ==
    [op |-> op, name |-> n, schema |-> s, miss |-> FALSE,
     after |-> IF n \in Names THEN createRet[n] # 0 ELSE FALSE,
     listed |-> Listed(n)]
NoLocal == [index |-> 0, indexes |-> {}]
NoRes == [kind |-> "none", h |-> 0, names |-> {}]

OkSome(h) == [kind |-> "handle", h |-> h, names |-> {}]
OkNone == [kind |-> "notfound", h |-> 0, names |-> {}]
OkSet(S) == [kind |-> "set", h |-> 0, names |-> S]
Err == [kind |-> "err", h |-> 0, names |-> {}]

\* an error of the store, of a decode or of an Index construction can be injected
CanFail == fails < MaxFails

\* RwLock::read: granted when no thread holds the lock exclusive
CanRead(t) == writers = {}

\* RwLock::write: granted when no thread holds the lock at all
CanWrite(t) == writers = {} /\ readers = {}

\* Index::new(store, name): reopens the region of an existing index; there is
\* nothing to reopen when the region was never initialized
IndexNewOk(n) == regions[n] # 0

\* Index::with_schema(store, name, schema): initializes the region of `name`
IndexWithSchema(n, s) == [regions EXCEPT ![n] = s]

NoneBuilt == [n \in Names |-> [new |-> 0, ws |-> 0]]

\* the number of Index values constructed for n; a handle is identified by the
\* ordinal of its construction among those of its name
Built(n) == built[n].new + built[n].ws

DbInit ==
    /\ phase = "closed"
    /\ openRes = "none"
    /\ opens = 0
    /\ todo = {}
    /\ calls = 0
    /\ fails = 0
    /\ store = [present |-> FALSE, bytes |-> <<>>]
    /\ regions = [n \in Names |-> 0]
    /\ cache = [n \in Names |-> 0]
    /\ readers = {}
    /\ writers = {}
    /\ pc = [t \in Threads |-> "idle"]
    /\ call = [t \in Threads |-> NoCall]
    /\ local = [t \in Threads |-> NoLocal]
    /\ res = [t \in Threads |-> NoRes]
    /\ built = NoneBuilt
    /\ createRet = [n \in Names |-> 0]
    /\ everCreated = {}

\* ------------------------------------------------------- Database::open
\* lines 40-44: sled::Db::open(path)?, load_indexes(&inner)?; the thread that
\* opens the Database then runs the loop of lines 46-48 on the names it loaded
OpenStart ==
    /\ phase = "closed"
    /\ opens < MaxOpens
    /\ opens' = opens + 1
    /\ \/ /\ phase' = "opening"
          /\ todo' = indexes
          /\ openRes' = "none"
          /\ pc' = [pc EXCEPT ![MainThread] = "open_loop"]
          /\ fails' = fails
       \/ /\ CanFail
          /\ fails' = fails + 1
          /\ openRes' = "err"
          /\ UNCHANGED <<phase, todo, pc>>
    /\ UNCHANGED <<calls, store, regions, cache, readers, writers, call, local, res,
                   built, createRet, everCreated>>

\* mutant: the loop of Database::open opens one name and skips the others
OpenNextSkips ==
    /\ phase = "opening"
    /\ pc[MainThread] = "open_loop"
    /\ res[MainThread].kind # "err"
    /\ \E n \in todo :
         /\ todo' = {}
         /\ call' = [call EXCEPT ![MainThread] = Call("open_index", n, 0)]
    /\ res' = [res EXCEPT ![MainThread] = NoRes]
    /\ pc' = [pc EXCEPT ![MainThread] = "oi_read_lock"]
    /\ UNCHANGED <<phase, openRes, opens, fails, calls, store, regions, cache, readers,
                   writers, local, built, createRet, everCreated>>

\* lines 46-47: database.open_index(&index)? on the next name of the loaded set
OpenNext ==
    /\ phase = "opening"
    /\ pc[MainThread] = "open_loop"
    /\ res[MainThread].kind # "err"
    /\ \E n \in todo :
         /\ todo' = todo \ {n}
         /\ call' = [call EXCEPT ![MainThread] = Call("open_index", n, 0)]
    /\ res' = [res EXCEPT ![MainThread] = NoRes]
    /\ pc' = [pc EXCEPT ![MainThread] = "oi_read_lock"]
    /\ UNCHANGED <<phase, openRes, opens, fails, calls, store, regions, cache, readers,
                   writers, local, built, createRet, everCreated>>

\* line 47: the `?`: an open_index that failed ends Database::open with its
\* error; the Database under construction, and its cache, are dropped
OpenFail ==
    /\ phase = "opening"
    /\ pc[MainThread] = "open_loop"
    /\ res[MainThread].kind = "err"
    /\ phase' = "closed"
    /\ openRes' = "err"
    /\ todo' = {}
    /\ cache' = [n \in Names |-> 0]
    /\ built' = NoneBuilt
    /\ pc' = [pc EXCEPT ![MainThread] = "idle"]
    /\ call' = [call EXCEPT ![MainThread] = NoCall]
    /\ res' = [res EXCEPT ![MainThread] = NoRes]
    /\ UNCHANGED <<opens, fails, calls, store, regions, readers, writers, local,
                   createRet, everCreated>>

\* mutant: Database::open returns before its loop has opened every name
OpenDoneEarly ==
    /\ phase = "opening"
    /\ pc[MainThread] = "open_loop"
    /\ res[MainThread].kind # "err"
    /\ phase' = "open"
    /\ openRes' = "ok"
    /\ todo' = {}
    /\ pc' = [pc EXCEPT ![MainThread] = "idle"]
    /\ call' = [call EXCEPT ![MainThread] = NoCall]
    /\ res' = [res EXCEPT ![MainThread] = NoRes]
    /\ UNCHANGED <<opens, fails, calls, store, regions, cache, readers, writers,
                   local, built, createRet, everCreated>>

\* line 50: Ok(database)
OpenDone ==
    /\ phase = "opening"
    /\ pc[MainThread] = "open_loop"
    /\ res[MainThread].kind # "err"
    /\ todo = {}
    /\ phase' = "open"
    /\ openRes' = "ok"
    /\ pc' = [pc EXCEPT ![MainThread] = "idle"]
    /\ call' = [call EXCEPT ![MainThread] = NoCall]
    /\ res' = [res EXCEPT ![MainThread] = NoRes]
    /\ UNCHANGED <<opens, fails, calls, todo, store, regions, cache, readers, writers,
                   local, built, createRet, everCreated>>

\* the Database is dropped (the store stays): the cache goes with it
Close ==
    /\ phase = "open"
    /\ \A t \in Threads : pc[t] = "idle"
    /\ opens < MaxOpens
    /\ phase' = "closed"
    /\ openRes' = "none"
    /\ cache' = [n \in Names |-> 0]
    /\ built' = NoneBuilt
    /\ createRet' = [n \in Names |-> 0]
    /\ call' = [t \in Threads |-> NoCall]
    /\ res' = [t \in Threads |-> NoRes]
    /\ UNCHANGED <<opens, fails, calls, todo, store, regions, readers, writers, pc,
                   local, everCreated>>

\* the process stops while calls are in progress: the Database, its cache, its
\* lock and the unfinished calls are gone; the store keeps what was written
Crash ==
    /\ phase = "open"
    /\ \E t \in Threads : pc[t] # "idle"
    /\ opens < MaxOpens
    /\ phase' = "closed"
    /\ openRes' = "none"
    /\ cache' = [n \in Names |-> 0]
    /\ built' = NoneBuilt
    /\ createRet' = [n \in Names |-> 0]
    /\ readers' = {}
    /\ writers' = {}
    /\ pc' = [t \in Threads |-> "idle"]
    /\ call' = [t \in Threads |-> NoCall]
    /\ local' = [t \in Threads |-> NoLocal]
    /\ res' = [t \in Threads |-> NoRes]
    /\ UNCHANGED <<opens, fails, calls, todo, store, regions, everCreated>>

\* ---------------------------------------------------- Database::indexes
Indexes(t) ==
    /\ phase = "open"
    /\ pc[t] = "idle"
    /\ calls < MaxCalls
    /\ calls' = calls + 1
    /\ call' = [call EXCEPT ![t] = Call("indexes", 0, 0)]
    /\ \/ res' = [res EXCEPT ![t] = OkSet(indexes)] /\ fails' = fails
       \/ CanFail /\ res' = [res EXCEPT ![t] = Err] /\ fails' = fails + 1
    /\ UNCHANGED <<phase, openRes, opens, todo, store, regions, cache, readers, writers,
                   pc, local, built, createRet, everCreated>>

\* the thread returns `r`; the lock guards it holds are dropped
Return(t, r) ==
    /\ res' = [res EXCEPT ![t] = r]
    /\ pc' = [pc EXCEPT ![t] = IF phase = "opening" THEN "open_loop" ELSE "idle"]
    /\ readers' = readers \ {t}
    /\ writers' = writers \ {t}
    /\ local' = [local EXCEPT ![t] = NoLocal]

Goto(t, label) == pc' = [pc EXCEPT ![t] = label]

\* ------------------------------------------------- Database::open_index
CallOpenIndex(t) ==
    /\ phase = "open"
    /\ pc[t] = "idle"
    /\ calls < MaxCalls
    /\ calls' = calls + 1
    /\ \E n \in Names :
         call' = [call EXCEPT ![t] = Call("open_index", n, 0)]
    /\ res' = [res EXCEPT ![t] = NoRes]
    /\ Goto(t, "oi_read_lock")
    /\ UNCHANGED <<phase, openRes, opens, todo, fails, store, regions, cache, readers,
                   writers, local, built, createRet, everCreated>>

\* mutant: open_index reads the cache without waiting for the thread that
\* holds the lock exclusive
OiReadLockNoWait(t) ==
    /\ pc[t] = "oi_read_lock"
    /\ readers' = readers \cup {t}
    /\ Goto(t, "oi_fast")
    /\ UNCHANGED <<phase, openRes, opens, todo, calls, fails, store, regions, cache, writers,
                   call, local, res, built, createRet, everCreated>>

\* line 65: self.cache.read()
OiReadLock(t) ==
    /\ pc[t] = "oi_read_lock"
    /\ CanRead(t)
    /\ readers' = readers \cup {t}
    /\ Goto(t, "oi_fast")
    /\ UNCHANGED <<phase, openRes, opens, todo, calls, fails, store, regions, cache, writers,
                   call, local, res, built, createRet, everCreated>>

\* mutant: on a miss open_index keeps its read guard while it goes on to
\* request the exclusive lock
OiFastKeepsGuard(t) ==
    /\ pc[t] = "oi_fast"
    /\ IF cache[call[t].name] # 0
       THEN Return(t, OkSome(cache[call[t].name])) /\ UNCHANGED call
       ELSE /\ Goto(t, "oi_write_lock")
            /\ call' = [call EXCEPT ![t].miss = TRUE]
            /\ UNCHANGED <<readers, writers, local, res>>
    /\ UNCHANGED <<phase, openRes, opens, todo, calls, fails, store, regions, cache, built,
                   createRet, everCreated>>

\* lines 66-69: the fast path; the read guard is dropped at the end of the block
OiFast(t) ==
    /\ pc[t] = "oi_fast"
    /\ IF cache[call[t].name] # 0
       THEN Return(t, OkSome(cache[call[t].name])) /\ UNCHANGED call
       ELSE /\ readers' = readers \ {t}
            /\ Goto(t, "oi_write_lock")
            /\ call' = [call EXCEPT ![t].miss = TRUE]
            /\ UNCHANGED <<writers, local, res>>
    /\ UNCHANGED <<phase, openRes, opens, todo, calls, fails, store, regions, cache, built,
                   createRet, everCreated>>

\* mutant: open_index takes the exclusive lock without waiting for its holder
OiWriteLockNoWait(t) ==
    /\ pc[t] = "oi_write_lock"
    /\ writers' = writers \cup {t}
    /\ Goto(t, "oi_entry")
    /\ UNCHANGED <<phase, openRes, opens, todo, calls, fails, store, regions, cache,
                   readers, call, local, res, built, createRet, everCreated>>

\* line 71: self.cache.write()
OiWriteLock(t) ==
    /\ pc[t] = "oi_write_lock"
    /\ CanWrite(t)
    /\ writers' = writers \cup {t}
    /\ Goto(t, "oi_entry")
    /\ UNCHANGED <<phase, openRes, opens, todo, calls, fails, store, regions, cache, readers,
                   call, local, res, built, createRet, everCreated>>

\* mutant: open_index does not look at the entry again under the exclusive lock
OiEntryNoRecheck(t) ==
    /\ pc[t] = "oi_entry"
    /\ Goto(t, "oi_indexes")
    /\ UNCHANGED <<phase, openRes, opens, todo, calls, fails, store, regions, cache,
                   readers, writers, call, local, res, built, createRet, everCreated>>

\* lines 72-76: cache.entry(name): Occupied returns the entry
OiEntry(t) ==
    /\ pc[t] = "oi_entry"
    /\ IF cache[call[t].name] # 0
       THEN Return(t, OkSome(cache[call[t].name]))
       ELSE /\ Goto(t, "oi_indexes")
            /\ UNCHANGED <<readers, writers, local, res>>
    /\ UNCHANGED <<phase, openRes, opens, todo, calls, fails, store, regions, cache, call, built,
                   createRet, everCreated>>

\* mutant: open_index constructs the Index whether or not the name is persisted
OiIndexesNoCheck(t) ==
    /\ pc[t] = "oi_indexes"
    /\ Goto(t, "oi_new")
    /\ UNCHANGED <<phase, openRes, opens, todo, calls, fails, store, regions, cache,
                   readers, writers, call, local, res, built, createRet, everCreated>>

\* lines 77-79: if !self.indexes()?.contains(name) { return Ok(None) }
OiIndexes(t) ==
    /\ pc[t] = "oi_indexes"
    /\ \/ /\ call[t].name \notin indexes
          /\ Return(t, OkNone)
          /\ fails' = fails
       \/ /\ call[t].name \in indexes
          /\ Goto(t, "oi_new")
          /\ UNCHANGED <<readers, writers, local, res, fails>>
       \/ /\ CanFail
          /\ Return(t, Err)
          /\ fails' = fails + 1
    /\ UNCHANGED <<phase, openRes, opens, todo, calls, store, regions, cache, call, built,
                   createRet, everCreated>>

\* lines 81-86: Index::new(..)?, vacant.insert(index), Ok(Some(index))
OiNew(t) ==
    /\ pc[t] = "oi_new"
    /\ LET n == call[t].name
       IN \/ /\ IndexNewOk(n)
             /\ built' = [built EXCEPT ![n].new = @ + 1]
             /\ cache' = [cache EXCEPT ![n] = Built(n) + 1]
             /\ Return(t, OkSome(Built(n) + 1))
             /\ fails' = fails
          \/ /\ CanFail \/ ~IndexNewOk(n)
             /\ Return(t, Err)
             /\ fails' = IF IndexNewOk(n) THEN fails + 1 ELSE fails
             /\ UNCHANGED <<built, cache>>
    /\ UNCHANGED <<phase, openRes, opens, todo, calls, store, regions, call, createRet,
                   everCreated>>

\* ----------------------------------------------- Database::create_index
CallCreateIndex(t) ==
    /\ phase = "open"
    /\ pc[t] = "idle"
    /\ calls < MaxCalls
    /\ calls' = calls + 1
    /\ \E n \in Names, s \in Schemas :
         call' = [call EXCEPT ![t] = Call("create_index", n, s)]
    /\ res' = [res EXCEPT ![t] = NoRes]
    /\ Goto(t, "ci_write_lock")
    /\ UNCHANGED <<phase, openRes, opens, todo, fails, store, regions, cache, readers,
                   writers, local, built, createRet, everCreated>>

\* mutant: create_index takes the exclusive lock without waiting for its holder
CiWriteLockNoWait(t) ==
    /\ pc[t] = "ci_write_lock"
    /\ writers' = writers \cup {t}
    /\ Goto(t, "ci_entry")
    /\ UNCHANGED <<phase, openRes, opens, todo, calls, fails, store, regions, cache,
                   readers, call, local, res, built, createRet, everCreated>>

\* line 90: self.cache.write()
CiWriteLock(t) ==
    /\ pc[t] = "ci_write_lock"
    /\ CanWrite(t)
    /\ writers' = writers \cup {t}
    /\ Goto(t, "ci_entry")
    /\ UNCHANGED <<phase, openRes, opens, todo, calls, fails, store, regions, cache, readers,
                   call, local, res, built, createRet, everCreated>>

\* the bookkeeping of a create_index that returns Ok(h) for name n
NoteCreated(n, h) ==
    /\ createRet' = [createRet EXCEPT ![n] = IF @ = 0 THEN h ELSE @]
    /\ everCreated' = everCreated \cup {n}

\* mutant: create_index treats every entry as vacant
CiEntryAlwaysVacant(t) ==
    /\ pc[t] = "ci_entry"
    /\ Goto(t, "ci_with_schema")
    /\ UNCHANGED <<phase, openRes, opens, todo, calls, fails, store, regions, cache,
                   readers, writers, call, local, res, built, createRet, everCreated>>

\* lines 92-95: cache.entry(name): Occupied returns the entry, the schema unused
CiEntry(t) ==
    /\ pc[t] = "ci_entry"
    /\ IF cache[call[t].name] # 0
       THEN /\ Return(t, OkSome(cache[call[t].name]))
            /\ NoteCreated(call[t].name, cache[call[t].name])
       ELSE /\ Goto(t, "ci_with_schema")
            /\ UNCHANGED <<readers, writers, local, res, createRet, everCreated>>
    /\ UNCHANGED <<phase, openRes, opens, todo, calls, fails, store, regions, cache, call, built>>

\* mutant: create_index writes the name into the durable set first and
\* constructs the Index afterwards
CiWithSchemaAfterWrite(t) ==
    /\ pc[t] = "ci_with_schema"
    /\ LET n == call[t].name
       IN \/ /\ store' = set_indexes(indexes \cup {n})
             /\ \/ /\ regions' = IndexWithSchema(n, call[t].schema)
                   /\ built' = [built EXCEPT ![n].ws = @ + 1]
                   /\ local' = [local EXCEPT ![t].index = Built(n) + 1]
                   /\ Goto(t, "ci_indexes")
                   /\ UNCHANGED <<readers, writers, res, fails>>
                \/ /\ CanFail
                   /\ Return(t, Err)
                   /\ fails' = fails + 1
                   /\ UNCHANGED <<regions, built>>
          \/ /\ CanFail
             /\ Return(t, Err)
             /\ fails' = fails + 1
             /\ UNCHANGED <<store, regions, built>>
    /\ UNCHANGED <<phase, openRes, opens, todo, calls, cache, call, createRet, everCreated>>

\* line 97: Index::with_schema(self.inner.clone(), name, schema)?
CiWithSchema(t) ==
    /\ pc[t] = "ci_with_schema"
    /\ LET n == call[t].name
       IN \/ /\ regions' = IndexWithSchema(n, call[t].schema)
             /\ built' = [built EXCEPT ![n].ws = @ + 1]
             /\ local' = [local EXCEPT ![t].index = Built(n) + 1]
             /\ Goto(t, "ci_indexes")
             /\ UNCHANGED <<readers, writers, res, fails>>
          \/ /\ CanFail
             /\ Return(t, Err)
             /\ fails' = fails + 1
             /\ UNCHANGED <<regions, built>>
    /\ UNCHANGED <<phase, openRes, opens, todo, calls, store, cache, call, createRet, everCreated>>

\* mutant: create_index caches the constructed Index before it reads the
\* durable set, so a failed read leaves the name cached
CiIndexesCachesFirst(t) ==
    /\ pc[t] = "ci_indexes"
    /\ cache' = [cache EXCEPT ![call[t].name] = local[t].index]
    /\ \/ /\ local' = [local EXCEPT ![t].indexes = indexes]
          /\ Goto(t, "ci_set_indexes")
          /\ UNCHANGED <<readers, writers, res, fails>>
       \/ /\ CanFail
          /\ Return(t, Err)
          /\ fails' = fails + 1
    /\ UNCHANGED <<phase, openRes, opens, todo, calls, store, regions, call, built,
                   createRet, everCreated>>

\* line 99: let mut indexes = self.indexes()?
CiIndexes(t) ==
    /\ pc[t] = "ci_indexes"
    /\ \/ /\ local' = [local EXCEPT ![t].indexes = indexes]
          /\ Goto(t, "ci_set_indexes")
          /\ UNCHANGED <<readers, writers, res, fails>>
       \/ /\ CanFail
          /\ Return(t, Err)
          /\ fails' = fails + 1
    /\ UNCHANGED <<phase, openRes, opens, todo, calls, store, regions, cache, call, built,
                   createRet, everCreated>>

\* mutant: create_index writes a set that holds the new name alone
CiSetIndexesAlone(t) ==
    /\ pc[t] = "ci_set_indexes"
    /\ store' = set_indexes({call[t].name})
    /\ Goto(t, "ci_insert")
    /\ UNCHANGED <<phase, openRes, opens, todo, calls, fails, regions, cache, readers,
                   writers, call, local, res, built, createRet, everCreated>>

\* lines 100-101: indexes.insert(name); self.set_indexes(&indexes)?
CiSetIndexes(t) ==
    /\ pc[t] = "ci_set_indexes"
    /\ \/ /\ store' = set_indexes(local[t].indexes \cup {call[t].name})
          /\ Goto(t, "ci_insert")
          /\ UNCHANGED <<readers, writers, local, res, fails>>
       \/ /\ CanFail
          /\ Return(t, Err)
          /\ fails' = fails + 1
          /\ UNCHANGED store
    /\ UNCHANGED <<phase, openRes, opens, todo, calls, regions, cache, call, built, createRet,
                   everCreated>>

\* mutant: create_index returns the new Index without caching it
CiInsertForgets(t) ==
    /\ pc[t] = "ci_insert"
    /\ Return(t, OkSome(local[t].index))
    /\ NoteCreated(call[t].name, local[t].index)
    /\ UNCHANGED <<phase, openRes, opens, todo, calls, fails, store, regions, cache,
                   call, built>>

\* mutant: create_index's insertion evicts the entries of the other names
CiInsertEvicts(t) ==
    /\ pc[t] = "ci_insert"
    /\ cache' = [n \in Names |-> IF n = call[t].name THEN local[t].index ELSE 0]
    /\ Return(t, OkSome(local[t].index))
    /\ NoteCreated(call[t].name, local[t].index)
    /\ UNCHANGED <<phase, openRes, opens, todo, calls, fails, store, regions, call, built>>

\* lines 103-107: vacant.insert(index).clone(); Ok(index)
CiInsert(t) ==
    /\ pc[t] = "ci_insert"
    /\ cache' = [cache EXCEPT ![call[t].name] = local[t].index]
    /\ Return(t, OkSome(local[t].index))
    /\ NoteCreated(call[t].name, local[t].index)
    /\ UNCHANGED <<phase, openRes, opens, todo, calls, fails, store, regions, call, built>>

\* ================================================================ schema
\* the number of values of u16, the type that SchemaAttr wraps
U16Modulus == 65536

\* `value as u16`
AsU16(value) == value % U16Modulus

AttrNames == 1..NumAttrNames

SchemaProps(d, i, r) == [displayed |-> d, indexed |-> i, ranked |-> r]
DISPLAYED == SchemaProps(TRUE, FALSE, FALSE)
INDEXED == SchemaProps(FALSE, TRUE, FALSE)
RANKED == SchemaProps(FALSE, FALSE, TRUE)

\* mutant: the OR drops the ranked flag of its right operand
BitOrLosesRanked(self, other) ==
    SchemaProps(self.displayed \/ other.displayed,
                self.indexed \/ other.indexed,
                self.ranked)

\* impl BitOr for SchemaProps
BitOr(self, other) ==
    SchemaProps(self.displayed \/ other.displayed,
                self.indexed \/ other.indexed,
                self.ranked \/ other.ranked)

\* every value of SchemaProps
AllProps == {SchemaProps(d, i, r) : d \in BOOLEAN, i \in BOOLEAN, r \in BOOLEAN}

PropsIdle ==
    /\ ops = <<DISPLAYED>>
    /\ acc = DISPLAYED

\* a first operand
PropsInit ==
    \E p \in AllProps :
        /\ ops = <<p>>
        /\ acc = p

\* acc | p
OrWith ==
    /\ Len(ops) < MaxOperands
    /\ \E p \in AllProps :
         /\ ops' = Append(ops, p)
         /\ acc' = BitOr(acc, p)

PropsNext == OrWith /\ UNCHANGED <<dbvars, svars, avars>>

\* the props that the declarations of the model draw from
DeclProps == {DISPLAYED, BitOr(DISPLAYED, INDEXED), INDEXED, RANKED}

\* a Vec or the entries of an IndexMap, given by the function f on 1..n
AsSeq(f) == SubSeq(f, 1, Len(f))

SetMin(S) == CHOOSE x \in S : \A y \in S : x <= y
SetMax(S) == CHOOSE x \in S : \A y \in S : x >= y

\* ------------------------------------------------ the collections, in runs
\* The state holds every collection of the schema model run-length encoded:
\* Pack* and Unpack* are inverse to each other, and every operator below that
\* models code works on the collection itself.

\* the entry j places after entry x in a run: the name advances by j
Shift(x, j) == [x EXCEPT ![1] = @ + j]

\* a sequence of entries (tuples led by a name) as its length and its runs:
\* <<i, x>> says that index i holds x and the indexes after it, up to the next
\* run, hold Shift(x, 1), Shift(x, 2), ...
PackSeq(seq) ==
    [len |-> Len(seq),
     runs |-> {<<i, seq[i]>> :
                  i \in {j \in 1..Len(seq) : j = 1 \/ seq[j] # Shift(seq[j - 1], 1)}}]

UnpackSeq(p) ==
    AsSeq([i \in 1..p.len |->
             LET r == CHOOSE r \in p.runs :
                        r[1] <= i /\ \A q \in p.runs : q[1] <= i => q[1] <= r[1]
             IN Shift(r[2], i - r[1])])

\* a HashMap name -> id (a set of entries <<name, id>>) as its runs:
\* <<name, id, len>> stands for the entries <<name + j, id + j>>, j in 0..len-1
PackMap(entries) ==
    LET starts == {e \in entries : <<e[1] - 1, e[2] - 1>> \notin entries}
        ends == {e \in entries : <<e[1] + 1, e[2] + 1>> \notin entries}
    IN {<<s[1], s[2],
          1 + SetMin({e[1] - s[1] :
                        e \in {x \in ends : x[1] >= s[1]
                                            /\ x[1] - x[2] = s[1] - s[2]}})>> :
           s \in starts}

UnpackMap(runs) ==
    LET longest == SetMax({r[3] : r \in runs} \cup {0})
    IN {<<x[1][1] + x[2], x[1][2] + x[2]>> :
           x \in {y \in runs \X (0..(longest - 1)) : y[2] < y[1][3]}}

PackBuilder(builder) ==
    [identifier |-> builder.identifier, attributes |-> PackSeq(builder.attributes)]
UnpackBuilder(p) ==
    [identifier |-> p.identifier, attributes |-> UnpackSeq(p.attributes)]

PackSchema(sch) ==
    [identifier |-> sch.identifier, attrs |-> PackMap(sch.attrs),
     props |-> PackSeq(sch.props)]
UnpackSchema(p) ==
    [identifier |-> p.identifier, attrs |-> UnpackMap(p.attrs),
     props |-> UnpackSeq(p.props)]

PackWire(w) == [identifier |-> w.identifier, entries |-> PackSeq(w.entries)]
UnpackWire(p) == [identifier |-> p.identifier, entries |-> UnpackSeq(p.entries)]

\* ------------------------------------------------------------ the code
\* SchemaBuilder::with_identifier; the IndexMap `attributes` is the sequence of
\* its entries <<name, props>>
with_identifier(name) == [identifier |-> name, attributes |-> <<>>]

\* a builder on which one attribute per value of SchemaAttr has been declared:
\* U16Modulus distinct names, none of them in AttrNames
FullBuilder ==
    [identifier |-> 1,
     attributes |-> AsSeq([i \in 1..U16Modulus |-> <<NumAttrNames + i, DISPLAYED>>])]

NoBuilder == PackBuilder([identifier |-> 0, attributes |-> <<>>])
NoSchema == PackSchema([identifier |-> 0, attrs |-> {}, props |-> <<>>])
NoWire == PackWire([identifier |-> 0, entries |-> <<>>])

\* the names of an IndexMap
Keys(attributes) == {attributes[i][1] : i \in 1..Len(attributes)}

\* IndexMap::insert: the value of a present key is replaced in place, an absent
\* key is appended
IndexMapInsert(attributes, name, p) ==
    IF name \in Keys(attributes)
    THEN AsSeq([i \in 1..Len(attributes) |->
                  IF attributes[i][1] = name THEN <<name, p>> ELSE attributes[i]])
    ELSE Append(attributes, <<name, p>>)

\* SchemaBuilder::build: attrs is the HashMap name -> SchemaAttr as the set of
\* its entries <<name, id>> (the names of an IndexMap are distinct), props the Vec
build(builder) ==
    [identifier |-> builder.identifier,
     attrs |-> {<<builder.attributes[i][1], AsU16(i - 1)>> :
                    i \in 1..Len(builder.attributes)},
     props |-> AsSeq([i \in 1..Len(builder.attributes) |->
                         <<builder.attributes[i][1], builder.attributes[i][2]>>])]

\* Schema::attribute: the ids the HashMap holds for `name`, none or one
attribute(sch, name) == {e[2] : e \in {x \in sch.attrs : x[1] = name}}

\* Schema::attribute_name
attribute_name(sch, attr) == sch.props[attr + 1][1]

\* Schema::props
props(sch, attr) == sch.props[attr + 1][2]

\* Schema::attributes_ordered, the first loop: the insertions into the BTreeMap
\* `ordered`, <<attr.0, name, props[attr.0]>> for every entry of attrs
OrderedInserts(sch) ==
    {<<e[2], e[1], sch.props[e[2] + 1][2]>> : e \in sch.attrs}

\* the keys under which the loop inserts more than once: a key k is inserted
\* once when the only entry of attrs with id k is the name at index k of props
ClashKeys(sch) ==
    {x[1] : x \in {y \in OrderedInserts(sch) : sch.props[y[1] + 1][1] # y[2]}}

\* the BTreeMaps the first loop can leave: an insertion under a present key
\* replaces its value, and the HashMap is iterated in an unspecified order, so
\* of the insertions that share a key any one can be the one that stays. A map
\* is given by `picks`, the insertion that stays under every such key
OrderedMaps(sch) ==
    LET keys == ClashKeys(sch)
        clash == {x \in OrderedInserts(sch) : x[1] \in keys}
    IN {picks \in [keys -> clash] : \A k \in keys : picks[k][1] = k}

\* the value that the BTreeMap given by `picks` holds under key k
OrderedGet(sch, picks, k) ==
    IF k \in DOMAIN picks THEN <<picks[k][2], picks[k][3]>>
    ELSE <<sch.props[k + 1][1], sch.props[k + 1][2]>>

\* Schema::attributes_ordered, the second loop: the values of the BTreeMap in
\* ascending key order, inserted into an IndexMap
RECURSIVE InKeyOrder(_, _, _)
InKeyOrder(sch, picks, keys) ==
    IF keys = {} THEN <<>>
    ELSE <<OrderedGet(sch, picks, SetMin(keys))>>
         \o InKeyOrder(sch, picks, keys \ {SetMin(keys)})

attributes_ordered(sch) ==
    LET keys == {e[2] : e \in sch.attrs}
        len == Cardinality(keys)
    IN {IF keys = 0..(len - 1)
        THEN AsSeq([i \in 1..len |-> OrderedGet(sch, picks, i - 1)])
        ELSE InKeyOrder(sch, picks, keys) : picks \in OrderedMaps(sch)}

\* Schema::to_builder: the builders it can return
to_builder(sch) ==
    {[identifier |-> sch.identifier, attributes |-> a] : a \in attributes_ordered(sch)}

\* #[derive(Serialize)] of SchemaBuilder: the identifier, then the entries of
\* the map in its order, each the name and the three flags
Encode(builder) ==
    [identifier |-> builder.identifier,
     entries |-> AsSeq([i \in 1..Len(builder.attributes) |->
                           <<builder.attributes[i][1],
                             builder.attributes[i][2].displayed,
                             builder.attributes[i][2].indexed,
                             builder.attributes[i][2].ranked>>])]

\* #[derive(Deserialize)] of SchemaBuilder: the entries are inserted into an
\* IndexMap in the order they are read
RECURSIVE DecodeEntries(_, _)
DecodeEntries(entries, attributes) ==
    IF entries = <<>> THEN attributes
    ELSE DecodeEntries(Tail(entries),
                       IndexMapInsert(attributes, Head(entries)[1],
                                      SchemaProps(Head(entries)[2], Head(entries)[3],
                                                  Head(entries)[4])))

Decode(w) ==
    [identifier |-> w.identifier,
     attributes |->
        IF Cardinality({w.entries[i][1] : i \in 1..Len(w.entries)}) = Len(w.entries)
        THEN AsSeq([i \in 1..Len(w.entries) |->
                      <<w.entries[i][1],
                        SchemaProps(w.entries[i][2], w.entries[i][3], w.entries[i][4])>>])
        ELSE DecodeEntries(w.entries, <<>>)]

\* ---------------------------------------------------------- SchemaAttr
None == [some |-> FALSE, value |-> 0]
Some(value) == [some |-> TRUE, value |-> value]

\* u16::checked_add / u16::checked_sub
checked_add(self, rhs) ==
    IF self + rhs >= U16Modulus THEN None ELSE Some(self + rhs)
checked_sub(self, rhs) ==
    IF self - rhs < 0 THEN None ELSE Some(self - rhs)

\* SchemaAttr::new, min, max
new(value) == value
min == 0
max == U16Modulus - 1

\* mutant: next() wraps around
next_wrapping(self) == Some(AsU16(self + 1))

\* SchemaAttr::next
next(self) == checked_add(self, 1)

\* SchemaAttr::prev
prev(self) == checked_sub(self, 1)

\* the values that callers hand to SchemaAttr::new
NewValues == {min, max, 5}

\* the SchemaAttr that the caller holds after the last operation
Held == IF aret.some THEN aret.value ELSE aarg

AttrInit ==
    /\ aop = "new"
    /\ aarg = min
    /\ aret = Some(new(min))

AttrNew ==
    \E value \in NewValues :
        /\ aop' = "new"
        /\ aarg' = value
        /\ aret' = Some(new(value))

AttrNext ==
    /\ aop' = "next"
    /\ aarg' = Held
    /\ aret' = next(Held)

AttrPrev ==
    /\ aop' = "prev"
    /\ aarg' = Held
    /\ aret' = prev(Held)

AttrSpecNext ==
    \/ AttrNew /\ UNCHANGED <<dbvars, svars, pvars>>
    \/ AttrNext /\ UNCHANGED <<dbvars, svars, pvars>>
    \/ AttrPrev /\ UNCHANGED <<dbvars, svars, pvars>>

SchemaIdle ==
    /\ stage = "none"
    /\ sb = NoBuilder
    /\ panicked = FALSE
    /\ rets = {}
    /\ schema = NoSchema
    /\ wire = NoWire
    /\ schema2 = NoSchema

\* a builder fresh from with_identifier, or the full one
SchemaStart ==
    /\ stage = "building"
    /\ sb \in {PackBuilder(with_identifier(name)) : name \in AttrNames}
                \cup {PackBuilder(FullBuilder)}
    /\ panicked = FALSE
    /\ rets = {}
    /\ schema = NoSchema
    /\ wire = NoWire
    /\ schema2 = NoSchema

\* mutant: new_attribute returns an id for a name that is already present
NewAttributeNoPanic ==
    /\ stage = "building"
    /\ ~panicked
    /\ sb.attributes.len < MaxAttrs \/ sb.attributes.len = U16Modulus
    /\ LET self == UnpackBuilder(sb)
           len == Len(self.attributes)
       IN \E name \in AttrNames, p \in DeclProps :
            /\ sb' = PackBuilder([self EXCEPT
                                    !.attributes = IndexMapInsert(@, name, p)])
            /\ panicked' = FALSE
            /\ rets' = rets \cup {<<name, AsU16(len)>>}
    /\ UNCHANGED <<stage, schema, wire, schema2>>

\* SchemaBuilder::new_attribute, lines 67-73
NewAttribute ==
    /\ stage = "building"
    /\ ~panicked
    /\ sb.attributes.len < MaxAttrs \/ sb.attributes.len = U16Modulus
    /\ LET self == UnpackBuilder(sb)
           len == Len(self.attributes)
       IN \E name \in AttrNames, p \in DeclProps :
            /\ sb' = PackBuilder([self EXCEPT
                                    !.attributes = IndexMapInsert(@, name, p)])
            /\ IF name \in Keys(self.attributes)
               THEN panicked' = TRUE /\ rets' = rets
               ELSE panicked' = FALSE /\ rets' = rets \cup {<<name, AsU16(len)>>}
    /\ UNCHANGED <<stage, schema, wire, schema2>>

\* SchemaBuilder::build, lines 75-86. build(self) takes the builder by value, so
\* no code reads it afterwards; sb keeps the declarations that were built
Build ==
    /\ stage = "building"
    /\ ~panicked
    /\ schema' = PackSchema(build(UnpackBuilder(sb)))
    /\ stage' = "built"
    /\ UNCHANGED <<sb, panicked, rets, wire, schema2>>

\* impl Serialize for Schema, lines 150-156
SerializeSchema ==
    /\ stage = "built"
    /\ \E b \in to_builder(UnpackSchema(schema)) : wire' = PackWire(Encode(b))
    /\ stage' = "encoded"
    /\ UNCHANGED <<sb, panicked, rets, schema, schema2>>

\* impl Deserialize for Schema, lines 158-165
DeserializeSchema ==
    /\ stage = "encoded"
    /\ schema2' = PackSchema(build(Decode(UnpackWire(wire))))
    /\ stage' = "decoded"
    /\ UNCHANGED <<sb, panicked, rets, schema, wire>>

SchemaNext ==
    \/ NewAttribute /\ UNCHANGED <<dbvars, avars, pvars>>
    \/ Build /\ UNCHANGED <<dbvars, avars, pvars>>
    \/ SerializeSchema /\ UNCHANGED <<dbvars, avars, pvars>>
    \/ DeserializeSchema /\ UNCHANGED <<dbvars, avars, pvars>>

vars == <<dbvars, svars, avars, pvars>>

SchemaInit == DbInit /\ SchemaStart /\ AttrInit /\ PropsIdle

SchemaSpec == SchemaInit /\ [][SchemaNext]_vars

AttrSpecInit == DbInit /\ SchemaIdle /\ AttrInit /\ PropsIdle

AttrSpec == AttrSpecInit /\ [][AttrSpecNext]_vars

PropsSpecInit == DbInit /\ SchemaIdle /\ AttrInit /\ PropsInit

PropsSpec == PropsSpecInit /\ [][PropsNext]_vars

\* ============================================================= database
Next ==
    \/ OpenStart /\ UNCHANGED <<svars, avars, pvars>>
    \/ OpenNext /\ UNCHANGED <<svars, avars, pvars>>
    \/ OpenFail /\ UNCHANGED <<svars, avars, pvars>>
    \/ OpenDone /\ UNCHANGED <<svars, avars, pvars>>
    \/ Close /\ UNCHANGED <<svars, avars, pvars>>
    \/ \E t \in Threads :
        \/ Indexes(t) /\ UNCHANGED <<svars, avars, pvars>>
        \/ CallOpenIndex(t) /\ UNCHANGED <<svars, avars, pvars>>
        \/ OiReadLock(t) /\ UNCHANGED <<svars, avars, pvars>>
        \/ OiFast(t) /\ UNCHANGED <<svars, avars, pvars>>
        \/ OiWriteLock(t) /\ UNCHANGED <<svars, avars, pvars>>
        \/ OiEntry(t) /\ UNCHANGED <<svars, avars, pvars>>
        \/ OiIndexes(t) /\ UNCHANGED <<svars, avars, pvars>>
        \/ OiNew(t) /\ UNCHANGED <<svars, avars, pvars>>
        \/ CallCreateIndex(t) /\ UNCHANGED <<svars, avars, pvars>>
        \/ CiWriteLock(t) /\ UNCHANGED <<svars, avars, pvars>>
        \/ CiEntry(t) /\ UNCHANGED <<svars, avars, pvars>>
        \/ CiWithSchema(t) /\ UNCHANGED <<svars, avars, pvars>>
        \/ CiIndexes(t) /\ UNCHANGED <<svars, avars, pvars>>
        \/ CiSetIndexes(t) /\ UNCHANGED <<svars, avars, pvars>>
        \/ CiInsert(t) /\ UNCHANGED <<svars, avars, pvars>>

Init == DbInit /\ SchemaIdle /\ AttrInit /\ PropsIdle

Spec == Init /\ [][Next]_vars

\* the same program in an environment where the process can stop at any point
CrashNext ==
    \/ Next
    \/ Crash /\ UNCHANGED <<svars, avars, pvars>>

CrashSpec == Init /\ [][CrashNext]_vars

\* a step of thread t inside open_index or create_index
ThreadStep(t) ==
    /\ \/ OiReadLock(t) \/ OiFast(t) \/ OiWriteLock(t) \/ OiEntry(t)
       \/ OiIndexes(t) \/ OiNew(t)
       \/ CiWriteLock(t) \/ CiEntry(t) \/ CiWithSchema(t) \/ CiIndexes(t)
       \/ CiSetIndexes(t) \/ CiInsert(t)
    /\ UNCHANGED <<svars, avars, pvars>>

\* the threads are scheduled fairly: a thread whose next step stays possible
\* takes it (the store's operations return, a free lock is granted)
LiveSpec == Init /\ [][Next]_vars /\ \A t \in Threads : WF_vars(ThreadStep(t))

TypeOK ==
    /\ phase \in {"closed", "opening", "open"}
    /\ Cardinality(writers) <= 1
    /\ writers = {} \/ readers = {}

\* =============================================================== claims
Returned(t, op) == pc[t] = "idle" /\ call[t].op = op
GotHandle(t) == res[t].kind = "handle"
InCreate(t) == pc[t] \in {"ci_entry", "ci_with_schema", "ci_indexes", "ci_set_indexes",
                          "ci_insert"}

\* C1 (as stated): at most one Index is ever constructed per name over the life
\* of the Database.
C1_AtMostOneConstructed == \A n \in Names : Built(n) <= 1

\* C1 (amended): Index::new succeeds at most once per name, and every open_index
\* or create_index call that returns a handle for a name returns the one handle
\* the cache holds for it; so at most one Index per name is ever handed out.
C1_OneHandlePerName ==
    \A n \in Names :
        /\ built[n].new <= 1
        /\ \A t \in Threads :
             (call[t].op \in {"open_index", "create_index"} /\ call[t].name = n
                /\ GotHandle(t))
             => (cache[n] # 0 /\ res[t].h = cache[n])

\* C1 witness: two threads raced to open the same name, both missed the fast
\* path, and both have returned the same handle.
C1_Witness ==
    \E t, u \in Threads :
        /\ t # u
        /\ Returned(t, "open_index") /\ Returned(u, "open_index")
        /\ call[t].name = call[u].name
        /\ call[t].miss /\ call[u].miss
        /\ GotHandle(t) /\ GotHandle(u)
        /\ res[t].h = res[u].h

\* C2: a call on n that started after a create_index(n, _) returned Ok returns
\* the handle the cache holds for n, which is the one create_index returned, and
\* no Index has been constructed for n since.
C2_CreateIsVisible ==
    \A t \in Threads :
        (pc[t] = "idle" /\ call[t].op \in {"open_index", "create_index"} /\ call[t].after)
        => /\ res[t] = OkSome(cache[call[t].name])
           /\ cache[call[t].name] = createRet[call[t].name]
           /\ Built(call[t].name) = createRet[call[t].name]

\* C2 witness: an open_index and a create_index that both started after the
\* create_index of their name had returned, and that have both returned.
C2_Witness ==
    \E t, u \in Threads :
        /\ Returned(t, "open_index") /\ call[t].after /\ GotHandle(t)
        /\ Returned(u, "create_index") /\ call[u].after /\ GotHandle(u)
        /\ call[t].name = call[u].name

\* C3: two create_index calls for different names that have both returned Ok
\* leave both names in the durable set, and no two threads are ever inside the
\* read-insert-rewrite of create_index at the same time.
C3_NoLostUpdate ==
    /\ \A t, u \in Threads :
         (t # u /\ Returned(t, "create_index") /\ Returned(u, "create_index")
            /\ GotHandle(t) /\ GotHandle(u) /\ call[t].name # call[u].name)
         => {call[t].name, call[u].name} \subseteq indexes
    /\ \A t, u \in Threads : (InCreate(t) /\ InCreate(u)) => t = u

\* C3 witness: two threads have each created a different name.
C3_Witness ==
    \E t, u \in Threads :
        /\ Returned(t, "create_index") /\ Returned(u, "create_index")
        /\ GotHandle(t) /\ GotHandle(u)
        /\ call[t].name # call[u].name
        /\ ~call[t].after /\ ~call[u].after
        /\ res[t].h = Built(call[t].name) /\ res[u].h = Built(call[u].name)
        /\ Deserialize(store.bytes) = {call[t].name, call[u].name}

\* C4: every step of a create_index(n, s2) taken while the cache holds an entry
\* for n leaves the cache, the store, the index regions and the constructions
\* unchanged, and the call returns the entry.
C4_FirstWriterWins ==
    [][\A t \in Threads :
         (call[t].op = "create_index" /\ pc[t] # "idle" /\ cache[call[t].name] # 0
            /\ pc'[t] # pc[t])
         => /\ cache' = cache /\ store' = store /\ regions' = regions /\ built' = built
            /\ pc'[t] \in {"ci_entry", "idle"}
            /\ pc'[t] = "idle" => res'[t] = OkSome(cache[call[t].name])]_dbvars

\* C4 witness: a create_index with a schema other than the one bound to the
\* name has returned the handle of the earlier create_index.
C4_Witness ==
    \E t \in Threads :
        /\ Returned(t, "create_index") /\ call[t].after
        /\ call[t].schema # regions[call[t].name]
        /\ GotHandle(t) /\ res[t].h = createRet[call[t].name]

\* C5: when open_index, holding the exclusive lock on a vacant entry, reads a
\* durable set that does not hold the name, it returns Ok(None); the step
\* changes neither the cache nor the store nor the constructions.
C5_NotFound ==
    [][\A t \in Threads :
         (pc[t] = "oi_indexes" /\ pc'[t] # pc[t] /\ call[t].name \notin indexes)
         => /\ cache' = cache /\ store' = store /\ regions' = regions /\ built' = built
            /\ pc'[t] = "idle"
            /\ fails' = fails => res'[t] = OkNone]_dbvars

\* C5 witness: an open_index of a name that is neither cached nor persisted has
\* returned "not found".
C5_Witness ==
    \E t \in Threads :
        /\ Returned(t, "open_index")
        /\ res[t] = OkNone
        /\ cache[call[t].name] = 0
        /\ call[t].name \notin indexes

\* C6 (as stated): open_index reads the durable set outside the lock that
\* protects the durable-set write of create_index.
C6_ReadOutsideLock ==
    \A t \in Threads : pc[t] = "oi_indexes" => t \notin writers

\* C6 (amended): open_index reads the durable set while it holds the exclusive
\* cache lock, so no thread is at that read while another is inside
\* create_index between its lock acquisition and its return.
C6_ReadUnderLock ==
    \A t \in Threads :
        pc[t] = "oi_indexes"
        => /\ t \in writers
           /\ \A u \in Threads : ~InCreate(u)

\* C6 witness: a thread is at open_index's durable-set read while another has
\* called create_index for the same name and waits for the lock.
C6_Witness ==
    \E t, u \in Threads :
        /\ phase = "open"
        /\ pc[t] = "oi_indexes"
        /\ pc[u] = "ci_write_lock"
        /\ call[t].name = call[u].name

\* C7: except while a create_index sits between its durable-set write and its
\* return, indexes() is exactly the set of names created so far (empty on a
\* fresh store); a set that indexes() returned holds created names only; and an
\* open_index that returns a handle for a created name returns the handle
\* create_index returned.
C7_IndexesAreCreated ==
    /\ (\A t \in Threads : pc[t] # "ci_insert") => indexes = everCreated
    /\ \A t \in Threads :
         /\ (Returned(t, "indexes") /\ res[t].kind = "set") => res[t].names \subseteq indexes
         /\ (Returned(t, "open_index") /\ call[t].after)
            => res[t] = OkSome(createRet[call[t].name])

\* C7 witness: a name was created, indexes() returned the set of created names
\* and an open_index returned the handle that create_index returned.
C7_Witness ==
    \E t, u \in Threads :
        /\ Returned(t, "indexes") /\ res[t].kind = "set"
        /\ res[t].names = everCreated /\ everCreated # {}
        /\ Returned(u, "open_index") /\ call[u].after
        /\ res[u].h = createRet[call[u].name]

\* the state in which Database::open has just returned Ok
JustOpened == phase = "open" /\ \A t \in Threads : call[t] = NoCall

\* C8: when Database::open returns Ok the cache holds an entry for every name
\* of the durable set; when it returns an error there is no Database (and no
\* cache); and an open_index that failed in its loop ends it.
C8_OpenAllOrNothing ==
    /\ JustOpened => \A n \in Names : (n \in indexes <=> cache[n] # 0)
    /\ openRes = "err" => (phase = "closed" /\ \A n \in Names : cache[n] = 0)
    /\ openRes = "ok" => phase = "open"

\* C8 witness: a name created before the Database was dropped is in the cache
\* of the Database that a second open returned.
C8_Witness ==
    /\ JustOpened
    /\ opens = 2
    /\ \E n \in everCreated : cache[n] # 0 /\ built[n].new = 1

\* C9: build() gives the attribute declared i-th (from 0) the id i, so the ids
\* of n declared names are exactly 0..n-1 in declaration order, and attribute
\* and attribute_name are mutual inverses: the HashMap holds <<name, i>> if and
\* only if index i of the Vec holds name.
C9_DenseIdsInverse ==
    stage = "built" =>
        LET builder == UnpackBuilder(sb)
            sch == UnpackSchema(schema)
            n == Len(builder.attributes)
        IN /\ sch.attrs = {<<builder.attributes[i][1], i - 1>> : i \in 1..n}
           /\ \A e \in sch.attrs :
                 e[2] < n /\ attribute_name(sch, e[2]) = e[1]
           /\ \A i \in 1..n :
                 <<attribute_name(sch, i - 1), i - 1>> \in sch.attrs

\* C10: a Schema that went through to_builder, the encoding of the builder, its
\* decoding and build() equals the Schema it started from: the same identifier,
\* the same id for every name, the same props in the same order.
C10_RoundTrip ==
    stage = "decoded" =>
        LET s == UnpackSchema(schema)
            s2 == UnpackSchema(schema2)
        IN /\ s2.identifier = s.identifier
           /\ s2.attrs = s.attrs
           /\ s2.props = s.props

\* C11: a new_attribute call for a name the builder already holds (the step
\* leaves the number of attributes as it was) panics and returns no SchemaAttr,
\* and once a declaration has panicked no Schema is ever built, serialized or
\* deserialized from the builder.
C11_DuplicateIsFatal ==
    /\ [][(stage = "building" /\ sb' # sb /\ sb'.attributes.len = sb.attributes.len)
            => (panicked' /\ rets' = rets)]_vars
    /\ [](panicked => (stage = "building" /\ schema = NoSchema /\ wire = NoWire
                         /\ schema2 = NoSchema))
    /\ [][panicked => (panicked' /\ sb' = sb /\ rets' = rets)]_vars

\* C11 witness: a second declaration of a name has panicked after a first one
\* returned its id.
C11_Witness ==
    /\ panicked
    /\ \E e \in rets : e[1] \in Keys(UnpackBuilder(sb).attributes)

\* C12: next() returns nothing exactly when the value is 65535 and the value
\* plus one otherwise; prev() returns nothing exactly when the value is 0 and
\* the value minus one otherwise; neither returns a value on the other side of
\* the range.
C12_CheckedAtBounds ==
    /\ aop = "next" =>
          /\ aret = None <=> aarg = U16Modulus - 1
          /\ aret # None => (aret = Some(aarg + 1) /\ aret.value > aarg)
    /\ aop = "prev" =>
          /\ aret = None <=> aarg = 0
          /\ aret # None => (aret = Some(aarg - 1) /\ aret.value < aarg)
    /\ aret.value \in 0..(U16Modulus - 1)

\* C12 witness: max().next() has returned nothing.
C12_Witness == aop = "next" /\ aarg = max /\ aret = None

\* C13: the OR of SchemaProps has a flag set if and only if one of its operands
\* has it; it is commutative, associative and idempotent over all eight
\* values; and DISPLAYED | INDEXED | RANKED has all three flags.
C13_OrLaws ==
    /\ acc.displayed <=> \E i \in 1..Len(ops) : ops[i].displayed
    /\ acc.indexed <=> \E i \in 1..Len(ops) : ops[i].indexed
    /\ acc.ranked <=> \E i \in 1..Len(ops) : ops[i].ranked
    /\ Len(ops) = 2 => acc = BitOr(ops[2], ops[1])
    /\ Len(ops) = 3 => acc = BitOr(ops[1], BitOr(ops[2], ops[3]))
    /\ (Len(ops) = 2 /\ ops[1] = ops[2]) => acc = ops[1]
    /\ BitOr(acc, acc) = acc
    /\ ops = <<DISPLAYED, INDEXED, RANKED>> => acc = SchemaProps(TRUE, TRUE, TRUE)

\* C13 witness: DISPLAYED | INDEXED | RANKED has been computed.
C13_Witness ==
    /\ ops = <<DISPLAYED, INDEXED, RANKED>>
    /\ acc.displayed /\ acc.indexed /\ acc.ranked

\* the numbers of attributes declared before the declaration of `name`
DeclaredBefore(attributes, name) ==
    {i - 1 : i \in {j \in 1..Len(attributes) : attributes[j][1] = name}}

\* C14: the SchemaAttr that new_attribute returned for a name is the number of
\* attributes declared before it, and it is the id under which attribute(name)
\* finds the name in the built Schema, whatever the number of declarations.
C14_ReturnedIdIsBuiltId ==
    /\ ~panicked =>
          \A e \in rets :
              DeclaredBefore(UnpackBuilder(sb).attributes, e[1]) = {e[2]}
    /\ stage = "built" =>
          \A e \in rets : attribute(UnpackSchema(schema), e[1]) = {e[2]}

\* C15: on a live Database no step removes a name from the cache or replaces
\* its handle, and no step at all removes a name from the durable set, so a name
\* only moves forward through UNKNOWN, PERSISTED, PERSISTED+CACHED; and a step
\* of an operation on one name changes neither the cache entry nor the
\* persistence of any other name.
C15_ForwardOnlyPerName ==
    [][/\ indexes \subseteq load_indexes(store')
       /\ (phase # "closed" /\ phase' # "closed") =>
             \A n \in Names : cache[n] # 0 => cache'[n] = cache[n]
       /\ \A t \in Threads :
             (pc'[t] # pc[t] /\ call'[t].op \in {"open_index", "create_index"}) =>
                \A b \in Names \ {call'[t].name} :
                    /\ cache'[b] = cache[b]
                    /\ b \in indexes <=> b \in load_indexes(store')]_dbvars

\* C15 witness: with two names persisted and cached, a later open_index or
\* create_index of one of them has returned the handle the name already had.
C15_Witness ==
    \E t \in Threads :
        /\ \A n \in Names : n \in indexes /\ cache[n] # 0
        /\ pc[t] = "idle" /\ call[t].op \in {"open_index", "create_index"}
        /\ call[t].after /\ GotHandle(t)
        /\ res[t].h = createRet[call[t].name]
        /\ res[t].h = cache[call[t].name]

\* thread t is inside an open_index or create_index call
InCall(t) == pc[t] \notin {"idle", "open_loop"}

\* C16: under fair scheduling every open_index and create_index call returns;
\* no interleaving leaves a thread waiting for the cache lock for ever.
C16_CallsReturn == \A t \in Threads : InCall(t) ~> ~InCall(t)

\* C16 witness: one thread holds the exclusive lock while an open_index that
\* missed its fast path and a create_index both wait for it.
C16_Witness ==
    \E t, u, v \in Threads :
        /\ writers = {v}
        /\ pc[t] = "oi_write_lock" /\ call[t].miss
        /\ pc[u] = "ci_write_lock"

\* C17: the step on which a create_index(n, _) returns an error changes neither
\* the cache nor the durable set nor the regions, and leaves n uncached and
\* not persisted; when the error came after the construction, the region that
\* the construction initialized stays. On such a name (initialized region,
\* not persisted) an open_index whose read succeeds returns 'not found', and
\* a create_index runs the construction again.
C17_FailedCreateCachesNothing ==
    [][\A t \in Threads :
          LET n == call[t].name
          IN /\ (InCreate(t) /\ pc'[t] = "idle" /\ res'[t] = Err) =>
                   /\ cache' = cache /\ cache[n] = 0
                   /\ store' = store /\ n \notin indexes
                   /\ regions' = regions
                   /\ pc[t] \in {"ci_indexes", "ci_set_indexes"} =>
                         (regions[n] = call[t].schema /\ built[n].ws >= 1)
             /\ (pc[t] = "oi_indexes" /\ pc'[t] # pc[t] /\ fails' = fails
                    /\ regions[n] # 0 /\ n \notin indexes) =>
                   (res'[t] = OkNone /\ cache' = cache)
             /\ (pc[t] = "ci_entry" /\ pc'[t] # pc[t] /\ regions[n] # 0
                    /\ n \notin indexes) =>
                   pc'[t] = "ci_with_schema"
             /\ (pc[t] = "ci_with_schema" /\ pc'[t] = "ci_indexes") =>
                   (built'[n].ws = built[n].ws + 1
                      /\ local'[t].index # local[t].index)]_dbvars

\* C17 witness: a create_index failed after its construction, a later
\* open_index of the name returned 'not found', and a later create_index of
\* the name constructed a second Index and returned it.
C17_Witness ==
    \E t, u, v \in Threads :
        /\ Returned(t, "create_index") /\ res[t] = Err
        /\ Returned(u, "open_index") /\ res[u] = OkNone
        /\ Returned(v, "create_index") /\ GotHandle(v)
        /\ call[u].name = call[t].name /\ call[v].name = call[t].name
        /\ built[call[t].name].ws = 2

\* C18: every cached name is in the durable set; on a Database that open has
\* returned the durable set holds no other name whenever no thread holds the
\* exclusive lock; so on such a Database no open_index gets as far as
\* constructing an Index.
C18_CachedIsPersisted ==
    /\ \A n \in Names : cache[n] # 0 => n \in indexes
    /\ (phase = "open" /\ writers = {}) => \A n \in indexes : cache[n] # 0
    /\ phase = "open" => \A t \in Threads : pc[t] # "oi_new"

\* C18 witness: on a re-opened Database, with every persisted name cached by
\* Index::new and the lock free, an open_index that missed its fast path (the
\* name is not persisted) has returned.
C18_Witness ==
    /\ phase = "open" /\ opens = 2 /\ writers = {}
    /\ indexes # {} /\ \A n \in indexes : cache[n] # 0 /\ built[n].new = 1
    /\ \E t \in Threads : Returned(t, "open_index") /\ call[t].miss

\* C19: an open_index(n) that started after an indexes() call had returned a set
\* holding n never leaves its fast path without the cached entry: it returns
\* a handle, never 'not found' and never an error, also when the create_index
\* that persisted n had not returned yet.
C19_ListedIsOpenable ==
    \A t \in Threads :
        (call[t].op = "open_index" /\ call[t].listed) =>
            /\ pc[t] \in {"idle", "oi_read_lock", "oi_fast"}
            /\ ~call[t].miss
            /\ pc[t] = "idle" => GotHandle(t)

\* C19 witness: on the Database that was opened empty, an open_index(n) that
\* started after indexes() returned n, and before any create_index(n, _)
\* returned, has returned the handle that the create_index then returned.
C19_Witness ==
    \E t \in Threads :
        /\ opens = 1
        /\ Returned(t, "open_index") /\ call[t].listed /\ ~call[t].after
        /\ GotHandle(t) /\ res[t].h = createRet[call[t].name]

\* C20: every name of the durable set has an initialized region, in every
\* state: while a create_index is at any of its steps, after it failed, after
\* the process stopped, after the Database was dropped. So the loop of
\* Database::open only meets names whose region Index::new can reopen, and
\* Index::new is never called on a region that was never initialized.
C20_PersistedIsInitialized ==
    /\ \A n \in indexes : regions[n] # 0
    /\ \A n \in todo : IndexNewOk(n)
    /\ \A t \in Threads : pc[t] = "oi_new" => IndexNewOk(call[t].name)

\* C20 witness: no operation ever failed, and the process stopped inside a
\* create_index after Index::with_schema and before the durable write, with
\* another name persisted; a Database was opened again and its loop has
\* reopened the persisted name.
C20_Witness ==
    /\ phase = "open" /\ opens = 2 /\ fails = 0
    /\ \A t \in Threads : pc[t] = "idle"
    /\ \E n \in Names : regions[n] # 0 /\ n \notin indexes
    /\ \E n \in indexes : cache[n] # 0 /\ built[n].new = 1

====
